---- MODULE Spec2Model ----
(***************************************************************************)
(* Translation session context of desktop-translator.                      *)
(*                                                                         *)
(* The repository holds two revisions of core/translation/                 *)
(* TranslationContext.js:                                                  *)
(*   "detector" - the revision driven by the local language detector       *)
(*                (handleExternalInput / handleInputUpdate),               *)
(*   "api"      - the revision driven by the provider's detected language  *)
(*                (updateFromApiResult / setManualPair).                   *)
(* A context object is an instance of exactly one of them; `revision`      *)
(* records which, and every method is modelled from the revision that      *)
(* declares it.                                                            *)
(***************************************************************************)
EXTENDS Integers, Sequences, FiniteSets, TLC

\* Language codes the callers supply (settings, detector, provider, UI).
Langs == {"ru", "en", "de"}
\* The 'auto' sentinel of the source side.
Auto == "auto"
\* null / undefined / '' : every falsy language code.
None == ""

\* Milliseconds per minute: timeoutMs = timeoutMinutes * 60 * 1000.
MsPerMinute == 60000
\* Largest wall-clock reading, in minutes, the model explores.
MaxTime == 3
\* Session timeouts (minutes) the settings supply.
MaxTimeout == 2
Timeouts == 1..MaxTimeout

Revisions == {"detector", "api"}

VARIABLES
    revision,        \* which revision of the class the object instantiates
    primary,         \* this.primary
    defaultForeign,  \* this.defaultForeign
    timeoutMs,       \* this.timeoutMs
    currentSource,   \* this.currentSource
    currentTarget,   \* this.currentTarget
    lastForeign,     \* this.lastForeign
    lastActivity,    \* this.lastActivity
    now,             \* Date.now()
    call,            \* the method call that produced this state (observer)
    smartSwitch,     \* settings.translation.smartSwitch
    activeProvider,  \* TranslationManager.activeProvider (its name, or "none")
    apiKey,          \* TranslationManager.apiKey
    cache,           \* TranslationManager.cache, in Map insertion order
    history,         \* TranslationManager.history
    req,             \* the translate() calls in progress, one per slot
    started,         \* number of translate() calls made so far
    last,            \* the manager call that returned last (observer)
    applied          \* newest call whose provider response was handled (observer)

ctxVars == <<primary, defaultForeign, timeoutMs, currentSource, currentTarget,
             lastForeign, lastActivity>>
mgrVars == <<smartSwitch, activeProvider, apiKey, cache, history, req, started,
             last, applied>>
vars == <<revision, primary, defaultForeign, timeoutMs, currentSource,
          currentTarget, lastForeign, lastActivity, now, call, smartSwitch,
          activeProvider, apiKey, cache, history, req, started, last, applied>>

\* The object's fields as one record.
Ctx ==
    [primary |-> primary, defaultForeign |-> defaultForeign,
     timeoutMs |-> timeoutMs, currentSource |-> currentSource,
     currentTarget |-> currentTarget, lastForeign |-> lastForeign,
     lastActivity |-> lastActivity]

\* Writes the record c back into the object's fields.
SetCtx(c) ==
    /\ primary' = c.primary
    /\ defaultForeign' = c.defaultForeign
    /\ timeoutMs' = c.timeoutMs
    /\ currentSource' = c.currentSource
    /\ currentTarget' = c.currentTarget
    /\ lastForeign' = c.lastForeign
    /\ lastActivity' = c.lastActivity

----------------------------------------------------------------------------
\* Methods of TranslationContext, as functions of the object c and the clock t.

\* isExpired(): (Date.now() - this.lastActivity) > this.timeoutMs
isExpired(c, t) == (t - c.lastActivity) > c.timeoutMs

\* touch(): this.lastActivity = Date.now()
touch(c, t) == [c EXCEPT !.lastActivity = t]

\* checkTimeout with a slip: the target is reset from the sticky language
\* before the sticky language itself is reset.
checkTimeoutDetector_StaleTarget(c, t) ==
    IF isExpired(c, t)
    THEN [c EXCEPT !.lastForeign = c.defaultForeign,
                   !.currentSource = Auto,
                   !.currentTarget = c.lastForeign]
    ELSE c

\* checkTimeout() of the detector revision: the reset leaves source 'auto'.
checkTimeoutDetector(c, t) ==
    IF isExpired(c, t)
    THEN [c EXCEPT !.lastForeign = c.defaultForeign,
                   !.currentSource = Auto,
                   !.currentTarget = c.defaultForeign]
    ELSE c

\* checkTimeout() of the api revision: the reset leaves source this.primary.
checkTimeoutApi(c, t) ==
    IF isExpired(c, t)
    THEN [c EXCEPT !.currentSource = c.primary,
                   !.currentTarget = c.defaultForeign,
                   !.lastForeign = c.defaultForeign]
    ELSE c

checkTimeout(rev, c, t) ==
    IF rev = "detector" THEN checkTimeoutDetector(c, t) ELSE checkTimeoutApi(c, t)

\* constructor(primaryLang, defaultForeignLang, timeoutMinutes), detector revision
newDetector(primaryLang, defaultForeignLang, timeoutMinutes, t) ==
    LET p == IF primaryLang # None THEN primaryLang ELSE "ru"
        f == IF defaultForeignLang # None THEN defaultForeignLang ELSE "en"
    IN  [primary |-> p, defaultForeign |-> f,
         timeoutMs |-> timeoutMinutes * MsPerMinute,
         currentSource |-> Auto,
         currentTarget |-> f, lastForeign |-> f, lastActivity |-> t]

\* constructor(primaryLang, defaultForeignLang, timeoutMinutes), api revision
newApi(primaryLang, defaultForeignLang, timeoutMinutes, t) ==
    LET p == IF primaryLang # None THEN primaryLang ELSE "ru"
        f == IF defaultForeignLang # None THEN defaultForeignLang ELSE "en"
    IN  [primary |-> p, defaultForeign |-> f,
         timeoutMs |-> timeoutMinutes * MsPerMinute,
         currentSource |-> p,
         currentTarget |-> f, lastForeign |-> f, lastActivity |-> t]

new(rev, primaryLang, defaultForeignLang, timeoutMinutes, t) ==
    IF rev = "detector"
    THEN newDetector(primaryLang, defaultForeignLang, timeoutMinutes, t)
    ELSE newApi(primaryLang, defaultForeignLang, timeoutMinutes, t)

\* handleExternalInput with a slip: a foreign input does not refresh the
\* sticky foreign language.
handleExternalInput_NoSticky(c, d, t) ==
    LET c1 == touch(checkTimeoutDetector(c, t), t)
    IN  IF d = None THEN c1
        ELSE IF d = c1.primary
        THEN [c1 EXCEPT !.currentSource = c1.primary,
                        !.currentTarget = c1.lastForeign]
        ELSE [c1 EXCEPT !.currentSource = d,
                        !.currentTarget = c1.primary]

\* handleExternalInput with a slip: a primary input targets the configured
\* default instead of the sticky foreign language.
handleExternalInput_DefaultTarget(c, d, t) ==
    LET c1 == touch(checkTimeoutDetector(c, t), t)
    IN  IF d = None THEN c1
        ELSE IF d = c1.primary
        THEN [c1 EXCEPT !.currentSource = c1.primary,
                        !.currentTarget = c1.defaultForeign]
        ELSE [c1 EXCEPT !.currentSource = d,
                        !.currentTarget = c1.primary,
                        !.lastForeign = d]

\* handleExternalInput(detectedLang)  (detector revision)
handleExternalInput(c, d, t) ==
    LET c1 == touch(checkTimeoutDetector(c, t), t)
    IN  IF d = None THEN c1
        ELSE IF d = c1.primary
        THEN [c1 EXCEPT !.currentSource = c1.primary,
                        !.currentTarget = c1.lastForeign]
        ELSE [c1 EXCEPT !.currentSource = d,
                        !.currentTarget = c1.primary,
                        !.lastForeign = d]

\* handleInputUpdate with a slip: the flip always targets primary.
handleInputUpdate_FlipToPrimary(c, d, t) ==
    LET c1 == touch(checkTimeoutDetector(c, t), t)
    IN  IF d = None THEN c1
        ELSE IF d = c1.currentTarget
        THEN [c1 EXCEPT !.currentSource = d,
                        !.currentTarget = c1.primary]
        ELSE IF d = c1.lastForeign /\ c1.currentSource # c1.lastForeign
        THEN [c1 EXCEPT !.currentSource = c1.lastForeign,
                        !.currentTarget = c1.primary]
        ELSE c1

\* handleInputUpdate with a slip: the switch-back correction is missing.
handleInputUpdate_NoCorrection(c, d, t) ==
    LET c1 == touch(checkTimeoutDetector(c, t), t)
    IN  IF d = None THEN c1
        ELSE IF d = c1.currentTarget
        THEN [c1 EXCEPT !.currentSource = d,
                        !.currentTarget = IF d = c1.primary
                                          THEN c1.lastForeign
                                          ELSE c1.primary]
        ELSE c1

\* handleInputUpdate with a slip: the correction fires even when the source
\* already is the sticky foreign language.
handleInputUpdate_UnguardedCorrection(c, d, t) ==
    LET c1 == touch(checkTimeoutDetector(c, t), t)
    IN  IF d = None THEN c1
        ELSE IF d = c1.currentTarget
        THEN [c1 EXCEPT !.currentSource = d,
                        !.currentTarget = IF d = c1.primary
                                          THEN c1.lastForeign
                                          ELSE c1.primary]
        ELSE IF d = c1.lastForeign
        THEN [c1 EXCEPT !.currentSource = c1.lastForeign,
                        !.currentTarget = c1.primary]
        ELSE c1

\* handleInputUpdate with a slip: the flip picks its target by the current
\* source instead of the detected language.
handleInputUpdate_FlipBySource(c, d, t) ==
    LET c1 == touch(checkTimeoutDetector(c, t), t)
    IN  IF d = None THEN c1
        ELSE IF d = c1.currentTarget
        THEN [c1 EXCEPT !.currentSource = d,
                        !.currentTarget = IF c1.currentSource = c1.primary
                                          THEN c1.lastForeign
                                          ELSE c1.primary]
        ELSE IF d = c1.lastForeign /\ c1.currentSource # c1.lastForeign
        THEN [c1 EXCEPT !.currentSource = c1.lastForeign,
                        !.currentTarget = c1.primary]
        ELSE c1

\* handleInputUpdate(detectedLang)  (detector revision)
handleInputUpdate(c, d, t) ==
    LET c1 == touch(checkTimeoutDetector(c, t), t)
    IN  IF d = None THEN c1
        ELSE IF d = c1.currentTarget
        THEN [c1 EXCEPT !.currentSource = d,
                        !.currentTarget = IF d = c1.primary
                                          THEN c1.lastForeign
                                          ELSE c1.primary]
        ELSE IF d = c1.lastForeign /\ c1.currentSource # c1.lastForeign
        THEN [c1 EXCEPT !.currentSource = c1.lastForeign,
                        !.currentTarget = c1.primary]
        ELSE c1

\* updateFromApiResult with a slip: the inversion always targets the sticky
\* foreign language.
updateFromApiResult_FlipToSticky(c, d, t) ==
    LET c1 == touch(checkTimeoutApi(c, t), t)
    IN  IF d = None THEN c1
        ELSE IF d = c1.currentTarget
        THEN [c1 EXCEPT !.currentSource = c1.currentTarget,
                        !.currentTarget = c1.lastForeign]
        ELSE [c1 EXCEPT !.currentSource = d,
                        !.lastForeign = IF d # c1.primary THEN d ELSE @]

\* updateFromApiResult with a slip: the guard against a missing language code
\* is absent.
updateFromApiResult_NoNullGuard(c, d, t) ==
    LET c1 == touch(checkTimeoutApi(c, t), t)
    IN  IF d = c1.currentTarget
        THEN [c1 EXCEPT !.currentSource = c1.currentTarget,
                        !.currentTarget = IF c1.currentTarget = c1.primary
                                          THEN c1.lastForeign
                                          ELSE c1.primary]
        ELSE [c1 EXCEPT !.currentSource = d,
                        !.lastForeign = IF d # c1.primary THEN d ELSE @]

\* updateFromApiResult with a slip: any detected language becomes the sticky
\* foreign language, the primary one included.
updateFromApiResult_StickyPrimary(c, d, t) ==
    LET c1 == touch(checkTimeoutApi(c, t), t)
    IN  IF d = None THEN c1
        ELSE IF d = c1.currentTarget
        THEN [c1 EXCEPT !.currentSource = c1.currentTarget,
                        !.currentTarget = IF c1.currentTarget = c1.primary
                                          THEN c1.lastForeign
                                          ELSE c1.primary]
        ELSE [c1 EXCEPT !.currentSource = d, !.lastForeign = d]

\* updateFromApiResult(detectedLang)  (api revision): the object afterwards.
updateFromApiResult(c, d, t) ==
    LET c1 == touch(checkTimeoutApi(c, t), t)
    IN  IF d = None THEN c1
        ELSE IF d = c1.currentTarget
        THEN [c1 EXCEPT !.currentSource = c1.currentTarget,
                        !.currentTarget = IF c1.currentTarget = c1.primary
                                          THEN c1.lastForeign
                                          ELSE c1.primary]
        ELSE [c1 EXCEPT !.currentSource = d,
                        !.lastForeign = IF d # c1.primary THEN d ELSE @]

\* updateFromApiResult(detectedLang): the returned "inverted" flag.
updateFromApiResultReturn(c, d, t) ==
    LET c1 == touch(checkTimeoutApi(c, t), t)
    IN  d # None /\ d = c1.currentTarget

\* setManualPair with a slip: 'auto' is taken for a concrete code.
setManualPair_AutoAsCode(c, source, target, t) ==
    LET c1 == touch(c, t)
        c2 == IF source # None
              THEN [c1 EXCEPT !.currentSource = source,
                              !.lastForeign = IF source # c1.primary
                                              THEN source ELSE @]
              ELSE c1
    IN  IF target # None
        THEN [c2 EXCEPT !.currentTarget = target,
                        !.lastForeign = IF target # c2.primary
                                        THEN target ELSE @]
        ELSE c2

\* setManualPair(source, target)  (api revision)
setManualPair(c, source, target, t) ==
    LET c1 == touch(c, t)
        c2 == IF source # None /\ source # Auto
              THEN [c1 EXCEPT !.currentSource = source,
                              !.lastForeign = IF source # c1.primary
                                              THEN source ELSE @]
              ELSE c1
    IN  IF target # None /\ target # Auto
        THEN [c2 EXCEPT !.currentTarget = target,
                        !.lastForeign = IF target # c2.primary
                                        THEN target ELSE @]
        ELSE c2

\* updateConfig(primary, secondary, timeout) of the detector revision; a falsy
\* argument (None, 0) is skipped.  The new default cascades into lastForeign.
updateConfigDetector(c, p, secondary, timeout, t) ==
    LET c1 == IF p # None THEN [c EXCEPT !.primary = p] ELSE c
        oldDefault == c1.defaultForeign
        c2 == IF secondary # None
              THEN LET d1 == [c1 EXCEPT !.defaultForeign = secondary]
                   IN  IF d1.lastForeign = oldDefault \/ isExpired(d1, t)
                       THEN [d1 EXCEPT !.lastForeign = secondary]
                       ELSE d1
              ELSE c1
    IN  IF timeout # 0
        THEN [c2 EXCEPT !.timeoutMs = timeout * MsPerMinute]
        ELSE c2

\* updateConfig(primary, secondary, timeout) of the api revision: the new
\* default cascades into lastForeign and into currentTarget.
updateConfigApi(c, p, secondary, timeout, t) ==
    LET c1 == IF p # None THEN [c EXCEPT !.primary = p] ELSE c
        oldDefault == c1.defaultForeign
        c2 == IF secondary # None
              THEN LET d1 == [c1 EXCEPT !.defaultForeign = secondary]
                       d2 == IF d1.lastForeign = oldDefault \/ isExpired(d1, t)
                             THEN [d1 EXCEPT !.lastForeign = secondary]
                             ELSE d1
                   IN  IF d2.currentTarget = oldDefault \/ isExpired(d2, t)
                       THEN [d2 EXCEPT !.currentTarget = secondary]
                       ELSE d2
              ELSE c1
    IN  IF timeout # 0
        THEN [c2 EXCEPT !.timeoutMs = timeout * MsPerMinute]
        ELSE c2

updateConfig(rev, c, p, secondary, timeout, t) ==
    IF rev = "detector"
    THEN updateConfigDetector(c, p, secondary, timeout, t)
    ELSE updateConfigApi(c, p, secondary, timeout, t)

----------------------------------------------------------------------------
(***************************************************************************)
(* TranslationManager.  The repository holds two versions of               *)
(* TranslationManager.translate that drive a context: the one that runs    *)
(* the local detector before the provider call (it works on the "detector" *)
(* revision of the context) and the one that feeds the provider's detected *)
(* language back (it works on the "api" revision).                         *)
(***************************************************************************)

\* this.cacheTTL = 24 * 60 * 60 * 1000
cacheTTL == 86400000
\* this.maxCacheSize (100 in the source), scaled down.
maxCacheSize == 2
\* this.maxHistorySize (50 in the source), scaled down.
maxHistorySize == 2
\* Largest number of translate() calls in one run.
MaxCalls == 3

\* Settings the application starts with: primaryLanguage, secondLanguage and
\* sessionTimeout (minutes; 60 in the defaults, scaled down to the clock).
SettingsPrimary == "ru"
SettingsSecond == "en"
SettingsTimeout == CHOOSE m \in Timeouts : \A n \in Timeouts : m <= n

\* Provider names of the factory.
Providers == {"mock", "google", "yandex"}

\* Texts handed to translate(): an empty one, a Russian and an English
\* sentence.
Texts == {"", "privet mir!", "hello world"}
\* text.length
TextLength(text) == IF text = "" THEN 0 ELSE IF text = "da" THEN 2 ELSE 11

\* franc.all(text, ...)[0]: the best guess <<ISO 639-3 code, score in percent>>.
francAll(text) ==
    CASE text = "privet mir!" -> <<"rus", 100>>
      [] text = "hello world" -> <<"eng", 100>>
      [] OTHER -> <<>>

\* LanguageUtils.isoMap restricted to the codes above (missing: null).
isoMap(code3) ==
    CASE code3 = "eng" -> "en"
      [] code3 = "rus" -> "ru"
      [] code3 = "deu" -> "de"
      [] OTHER -> None

\* detectLanguageOn without the confidence check for short texts.
detectLanguageOn_NoConfidenceCheck(length, results) ==
    IF length = 0 \/ length < 3 THEN None
    ELSE IF results = <<>> THEN None
    ELSE isoMap(results[1])

\* LanguageUtils.detectLanguage(text, priorityLanguages), when franc returns,
\* as a function of text.length and of franc.all's result (<<>>: no guess;
\* otherwise the best guess <<code3, score in percent>>).
detectLanguageOn(length, results) ==
    IF length = 0 \/ length < 3 THEN None
    ELSE IF results = <<>> THEN None
    ELSE IF length < 10 /\ results[2] < 75 THEN None
    ELSE isoMap(results[1])

\* LanguageUtils.detectLanguage(text, priorityLanguages), when franc returns.
detectLanguage(text) == detectLanguageOn(TextLength(text), francAll(text))

\* detectedLanguageCode of a provider's reply to a request with source 'auto'.
detectedLanguageCode(text) ==
    IF text = "hello world" THEN "en" ELSE "ru"

\* A provider's TranslationResult for a successful call: sourceLang is
\* detectedLanguageCode || sourceLang, detectedLanguage is
\* detectedLanguageCode || null, reported only for an 'auto' request.
TranslationResult(text, sourceLang, targetLang) ==
    LET code == IF sourceLang = Auto \/ sourceLang = None
                THEN detectedLanguageCode(text) ELSE None
    IN  [sourceLang |-> IF code # None THEN code ELSE sourceLang,
         targetLang |-> targetLang,
         detectedLanguage |-> code]

\* HTTP statuses of a failed request (0: no response at all), the keyword
\* the error message includes, and Yandex's numeric error code.
Statuses == {0, 400, 401, 403, 429, 500}
Messages == {"API key", "disabled", "quota", "folder", "other"}
Codes == {0, 16}

TranslationError(type, retryable) == [type |-> type, retryable |-> retryable]

\* GoogleTranslationProvider.mapGoogleError
mapGoogleError(status, message) ==
    CASE status = 400 ->
            IF message = "API key" THEN TranslationError("INVALID_API_KEY", FALSE)
            ELSE TranslationError("INVALID_REQUEST", FALSE)
      [] status = 403 ->
            IF message = "disabled" THEN TranslationError("INVALID_API_KEY", FALSE)
            ELSE IF message = "quota" THEN TranslationError("QUOTA_EXCEEDED", TRUE)
            ELSE TranslationError("INVALID_API_KEY", FALSE)
      [] status = 429 -> TranslationError("RATE_LIMITED", TRUE)
      [] OTHER -> TranslationError("PROVIDER_ERROR", TRUE)

\* YandexTranslationProvider.mapYandexError
mapYandexError(status, message, code) ==
    IF code = 16 \/ status = 401 THEN TranslationError("INVALID_API_KEY", FALSE)
    ELSE IF message = "folder" THEN TranslationError("INVALID_REQUEST", FALSE)
    ELSE CASE status = 403 -> TranslationError("QUOTA_EXCEEDED", FALSE)
           [] status = 429 -> TranslationError("RATE_LIMITED", TRUE)
           [] status = 400 -> TranslationError("INVALID_REQUEST", FALSE)
           [] OTHER -> TranslationError("PROVIDER_ERROR", TRUE)

\* The errors a provider's translate() can put into its result.  The mock
\* provider reports none for a non-empty text.
ProviderErrors(provider) ==
    CASE provider = "google" ->
            {mapGoogleError(s, m) : s \in Statuses, m \in Messages}
      [] provider = "yandex" ->
            {mapYandexError(s, m[1], m[2]) : s \in Statuses,
                                             m \in Messages \X Codes}
      [] OTHER -> {}

\* getCacheKey: `${providerName}:${text}:${sourceLang}:${targetLang}`.  The
\* provider name and the language codes hold no colon, so the string
\* determines its four parts.
getCacheKey(provider, text, sourceLang, targetLang) ==
    <<provider, text, sourceLang, targetLang>>

\* this.cache.get(key): the entry's position in insertion order, 0 if absent.
cacheIndex(c, key) ==
    IF \E k \in 1..Len(c) : c[k].key = key
    THEN CHOOSE k \in 1..Len(c) : c[k].key = key
    ELSE 0

\* isCacheValid with a slip: an entry of exactly the time to live still counts.
isCacheValid_Inclusive(cacheEntry, t) ==
    IF cacheEntry.timestamp = 0 THEN FALSE
    ELSE (t - cacheEntry.timestamp) <= cacheTTL

\* isCacheValid
isCacheValid(cacheEntry, t) ==
    IF cacheEntry.timestamp = 0 THEN FALSE
    ELSE (t - cacheEntry.timestamp) < cacheTTL

\* cached && this.isCacheValid(cached)
cacheHit(c, key, t) ==
    cacheIndex(c, key) # 0 /\ isCacheValid(c[cacheIndex(c, key)], t)

\* addToCache with the first key kept instead of the last one.
addToCache_EvictNewest(c, key, response, t, n) ==
    LET kept == IF Len(c) >= maxCacheSize THEN SubSeq(c, 1, Len(c) - 1) ELSE c
        k == cacheIndex(kept, key)
    IN  IF k # 0
        THEN [kept EXCEPT ![k] = [@ EXCEPT !.value = response, !.timestamp = t]]
        ELSE Append(kept, [key |-> key, value |-> response, timestamp |-> t,
                           born |-> n])

\* addToCache: a full Map loses its first key, then Map.set stores the entry
\* (an existing key keeps its place).  `born` numbers the insertions
\* (observer).
addToCache(c, key, response, t, n) ==
    LET kept == IF Len(c) >= maxCacheSize THEN Tail(c) ELSE c
        k == cacheIndex(kept, key)
    IN  IF k # 0
        THEN [kept EXCEPT ![k] = [@ EXCEPT !.value = response, !.timestamp = t]]
        ELSE Append(kept, [key |-> key, value |-> response, timestamp |-> t,
                           born |-> n])

\* addToHistory with push in place of unshift.
addToHistory_Push(h, translation) ==
    LET all == Append(h, translation)
    IN  IF Len(all) > maxHistorySize THEN SubSeq(all, 1, maxHistorySize)
        ELSE all

\* addToHistory: unshift, then slice(0, maxHistorySize).
addToHistory(h, translation) ==
    LET all == <<translation>> \o h
    IN  IF Len(all) > maxHistorySize THEN SubSeq(all, 1, maxHistorySize)
        ELSE all

\* Slots for translate() calls that overlap on one manager.
Slots == {1, 2}

\* The pair and the sticky language of a context.
Direction(c) == <<c.currentSource, c.currentTarget, c.lastForeign>>

\* The value translate() resolves to (kind "ok" or "error"), or the way it
\* ended otherwise: "empty" for the 'Empty text' reply, "threw" for a
\* rejected promise.  `retryable` is the flag of the provider's error object;
\* `producer` is the provider whose translate() made the translation
\* (observer).
NoResponse ==
    [kind |-> "none", sourceLang |-> None, targetLang |-> None,
     provider |-> "none", fromCache |-> FALSE, errorType |-> "none",
     retryable |-> FALSE, producer |-> "none"]

\* A translate() call: its arguments, its locals, where it stands (`via`:
\* the provider whose translate() it awaits), and what the observer notes
\* about it (seq, sent, direction0, expired0, overlap, again, evicted,
\* dropped).
IdleReq ==
    [pc |-> "idle", text |-> "", sourceLang |-> None, targetLang |-> None,
     isExternal |-> FALSE, finalSource |-> None, assumedSource |-> None,
     finalTarget |-> None, cacheKey |-> <<>>, detectedLang |-> None,
     sent |-> 0, seq |-> 0, direction0 |-> <<>>, expired0 |-> FALSE,
     overlap |-> FALSE, again |-> FALSE, evicted |-> {}, dropped |-> 0,
     via |-> "none", response |-> NoResponse]

\* { ...cached, fromCache: true }
fromCache(cacheEntry) ==
    [cacheEntry.value EXCEPT !.fromCache = TRUE]

\* The response translate() builds after a successful provider call.
okResponse(sourceLang, targetLang, provider) ==
    [NoResponse EXCEPT !.kind = "ok", !.sourceLang = sourceLang,
                       !.targetLang = targetLang, !.provider = provider]

\* The response translate() builds in its catch block.
errorResponse(error, provider) ==
    [NoResponse EXCEPT !.kind = "error", !.provider = provider,
                       !.errorType = error.type,
                       !.retryable = error.retryable]

\* The history entry of a response.
historyEntry(text, response, t) ==
    [text |-> text, sourceLang |-> response.sourceLang,
     targetLang |-> response.targetLang, provider |-> response.provider,
     timestamp |-> t]

\* translateDetector with a slip: the source sent is always the pair's.
translateDetector_PairSource(c, r, p, smart, ch, t, throws) ==
    IF r.text = ""
    THEN [c |-> c, p |-> p,
          r |-> [r EXCEPT !.pc = "done", !.response.kind = "empty"]]
    ELSE
    LET provider == IF p = "none" THEN "mock" ELSE p
        c0 == IF p = "none"
              THEN updateConfig("detector", c, SettingsPrimary, SettingsSecond,
                                SettingsTimeout, t)
              ELSE c
        isSmart == smart /\ r.sourceLang = Auto
    IN  IF isSmart /\ throws
        THEN [c |-> c0, p |-> provider,
              r |-> [r EXCEPT !.pc = "done", !.response.kind = "threw"]]
        ELSE
        LET detected == detectLanguage(r.text)
            c1 == IF ~isSmart THEN c0
                  ELSE IF r.isExternal THEN handleExternalInput(c0, detected, t)
                  ELSE handleInputUpdate(c0, detected, t)
            finalSource == IF ~isSmart THEN r.sourceLang ELSE c1.currentSource
            target == IF isSmart THEN c1.currentTarget ELSE r.targetLang
            finalTarget == IF target = None THEN SettingsPrimary ELSE target
            cacheKey == getCacheKey(provider, r.text, finalSource, finalTarget)
            r1 == [r EXCEPT !.finalSource = finalSource,
                            !.finalTarget = finalTarget,
                            !.cacheKey = cacheKey]
        IN  IF cacheHit(ch, cacheKey, t)
            THEN [c |-> c1, p |-> provider,
                  r |-> [r1 EXCEPT !.pc = "done",
                            !.response = fromCache(ch[cacheIndex(ch, cacheKey)])]]
            ELSE [c |-> c1, p |-> provider,
                  r |-> [r1 EXCEPT !.pc = "await1", !.sent = 1,
                                   !.via = provider]]

\* translate(), detector-driven version, up to its first await on the
\* provider: the call r on context c, provider p ("none": mock fallback),
\* cache ch, at time t; `throws` tells whether LanguageUtils.detectLanguage
\* throws.  Yields the context, the provider and the call afterwards.
translateDetector(c, r, p, smart, ch, t, throws) ==
    IF r.text = ""
    THEN [c |-> c, p |-> p,
          r |-> [r EXCEPT !.pc = "done", !.response.kind = "empty"]]
    ELSE
    LET provider == IF p = "none" THEN "mock" ELSE p
        c0 == IF p = "none"
              THEN updateConfig("detector", c, SettingsPrimary, SettingsSecond,
                                SettingsTimeout, t)
              ELSE c
        isSmart == smart /\ r.sourceLang = Auto
    IN  IF isSmart /\ throws
        THEN [c |-> c0, p |-> provider,
              r |-> [r EXCEPT !.pc = "done", !.response.kind = "threw"]]
        ELSE
        LET detected == detectLanguage(r.text)
            c1 == IF ~isSmart THEN c0
                  ELSE IF r.isExternal THEN handleExternalInput(c0, detected, t)
                  ELSE handleInputUpdate(c0, detected, t)
            finalSource ==
                IF ~isSmart THEN r.sourceLang
                ELSE IF detected # None
                     THEN (IF c1.currentSource = Auto THEN detected
                           ELSE c1.currentSource)
                     ELSE Auto
            target == IF isSmart THEN c1.currentTarget ELSE r.targetLang
            finalTarget == IF target = None THEN SettingsPrimary ELSE target
            cacheKey == getCacheKey(provider, r.text, finalSource, finalTarget)
            r1 == [r EXCEPT !.finalSource = finalSource,
                            !.finalTarget = finalTarget,
                            !.cacheKey = cacheKey]
        IN  IF cacheHit(ch, cacheKey, t)
            THEN [c |-> c1, p |-> provider,
                  r |-> [r1 EXCEPT !.pc = "done",
                            !.response = fromCache(ch[cacheIndex(ch, cacheKey)])]]
            ELSE [c |-> c1, p |-> provider,
                  r |-> [r1 EXCEPT !.pc = "await1", !.sent = 1,
                                   !.via = provider]]

\* translate(), api-driven version, up to its first await on the provider.
translateApi(c, r, p, ch, t) ==
    IF r.text = ""
    THEN [c |-> c, p |-> p,
          r |-> [r EXCEPT !.pc = "done", !.response.kind = "empty"]]
    ELSE
    LET provider == IF p = "none" THEN "mock" ELSE p
        c0 == IF p = "none"
              THEN updateConfig("api", c, SettingsPrimary, SettingsSecond,
                                SettingsTimeout, t)
              ELSE c
        c1 == checkTimeout("api", c0, t)
        c2 == IF r.sourceLang # None /\ r.sourceLang # Auto
                 /\ r.targetLang # None
              THEN setManualPair(c1, r.sourceLang, r.targetLang, t)
              ELSE c1
        finalTarget == IF r.targetLang # None THEN r.targetLang
                       ELSE c2.currentTarget
        requestSource == IF r.sourceLang = None \/ r.sourceLang = Auto
                         THEN Auto ELSE r.sourceLang
        assumedSource == IF requestSource = Auto THEN c2.currentSource
                         ELSE requestSource
        cacheKey == getCacheKey(provider, r.text, assumedSource, finalTarget)
        r1 == [r EXCEPT !.finalSource = requestSource,
                        !.assumedSource = assumedSource,
                        !.finalTarget = finalTarget,
                        !.cacheKey = cacheKey]
    IN  IF cacheHit(ch, cacheKey, t)
        THEN [c |-> c2, p |-> provider,
              r |-> [r1 EXCEPT !.pc = "done",
                        !.response = fromCache(ch[cacheIndex(ch, cacheKey)])]]
        ELSE [c |-> c2, p |-> provider,
              r |-> [r1 EXCEPT !.pc = "await1", !.sent = 1,
                               !.via = provider]]

\* a || b || c over language codes.
firstOf(a, b, c) == IF a # None THEN a ELSE IF b # None THEN b ELSE c

----------------------------------------------------------------------------
\* The observer's record of a call: method, arguments, the object before the
\* call, whether the session was expired on entry, and the returned value.
Called(op, a1, a2, a3, ret) ==
    [op |-> op, a1 |-> a1, a2 |-> a2, a3 |-> a3, pre |-> Ctx,
     expired |-> isExpired(Ctx, now), ret |-> ret]

\* No call to observe: the caller has consumed the previous call's outcome.
NoCall ==
    [op |-> "none", a1 |-> None, a2 |-> None, a3 |-> 0,
     pre |-> [primary |-> None, defaultForeign |-> None, timeoutMs |-> 0,
              currentSource |-> None, currentTarget |-> None,
              lastForeign |-> None, lastActivity |-> 0],
     expired |-> FALSE, ret |-> FALSE]

\* Language codes the local detector hands in (a mapped code or null).
Detected == Langs \cup {None}
\* Language codes a provider response hands in: a code, the echoed 'auto'
\* request source, or nothing.
ApiDetected == Langs \cup {None, Auto}
\* Language-selector values: a code, 'auto', or missing.
Selected == Langs \cup {None, Auto}

Init ==
    /\ revision \in Revisions
    /\ now = 0
    /\ \E p \in Langs \cup {None}, f \in Langs \cup {None}, tm \in Timeouts :
          LET c == new(revision, p, f, tm, 0)
          IN  /\ primary = c.primary
              /\ defaultForeign = c.defaultForeign
              /\ timeoutMs = c.timeoutMs
              /\ currentSource = c.currentSource
              /\ currentTarget = c.currentTarget
              /\ lastForeign = c.lastForeign
              /\ lastActivity = c.lastActivity
              /\ call = [op |-> "new", a1 |-> p, a2 |-> f, a3 |-> tm, pre |-> c,
                         expired |-> FALSE, ret |-> FALSE]
    /\ smartSwitch = TRUE
    /\ activeProvider = "none"
    /\ apiKey = None
    /\ cache = <<>>
    /\ history = <<>>
    /\ req = [i \in Slots |-> IdleReq]
    /\ started = 0
    /\ last = IdleReq
    /\ applied = 0

\* The methods are synchronous: a call runs to completion, the caller takes
\* its outcome (Return), and only then does the next event happen.
Return ==
    /\ call.op # "none"
    /\ call' = NoCall
    /\ UNCHANGED <<revision, ctxVars, now, mgrVars>>

\* Wall-clock time passes between calls (one minute per step).
Tick ==
    /\ call.op = "none"
    /\ now < MaxTime * MsPerMinute
    /\ now' = now + MsPerMinute
    /\ UNCHANGED <<revision, ctxVars, call, mgrVars>>

HandleExternalInput ==
    /\ call.op = "none"
    /\ revision = "detector"
    /\ \E d \in Detected :
          /\ SetCtx(handleExternalInput(Ctx, d, now))
          /\ call' = Called("handleExternalInput", d, None, 0, FALSE)
    /\ UNCHANGED <<revision, now, mgrVars>>

HandleInputUpdate ==
    /\ call.op = "none"
    /\ revision = "detector"
    /\ \E d \in Detected :
          /\ SetCtx(handleInputUpdate(Ctx, d, now))
          /\ call' = Called("handleInputUpdate", d, None, 0, FALSE)
    /\ UNCHANGED <<revision, now, mgrVars>>

UpdateFromApiResult ==
    /\ call.op = "none"
    /\ revision = "api"
    /\ \E d \in ApiDetected :
          /\ SetCtx(updateFromApiResult(Ctx, d, now))
          /\ call' = Called("updateFromApiResult", d, None, 0,
                            updateFromApiResultReturn(Ctx, d, now))
    /\ UNCHANGED <<revision, now, mgrVars>>

SetManualPair ==
    /\ call.op = "none"
    /\ revision = "api"
    /\ \E s \in Selected, g \in Selected :
          /\ SetCtx(setManualPair(Ctx, s, g, now))
          /\ call' = Called("setManualPair", s, g, 0, FALSE)
    /\ UNCHANGED <<revision, now, mgrVars>>

UpdateConfig ==
    /\ call.op = "none"
    /\ \E p \in Langs \cup {None}, s \in Langs \cup {None},
          tm \in Timeouts \cup {0} :
          /\ SetCtx(updateConfig(revision, Ctx, p, s, tm, now))
          /\ call' = Called("updateConfig", p, s, tm, FALSE)
    /\ UNCHANGED <<revision, now, mgrVars>>

CheckTimeout ==
    /\ call.op = "none"
    /\ SetCtx(checkTimeout(revision, Ctx, now))
    /\ call' = Called("checkTimeout", None, None, 0, FALSE)
    /\ UNCHANGED <<revision, now, mgrVars>>

Next ==
    \/ Return
    \/ Tick
    \/ HandleExternalInput
    \/ HandleInputUpdate
    \/ UpdateFromApiResult
    \/ SetManualPair
    \/ UpdateConfig
    \/ CheckTimeout

Spec == Init /\ [][Next]_vars

----------------------------------------------------------------------------
(***************************************************************************)
(* The manager at work: translate() calls arrive from the renderer, each   *)
(* runs up to its await on the provider, and the provider's replies come   *)
(* back in any order.                                                      *)
(***************************************************************************)

\* Arguments <<text, sourceLang, targetLang>> of the translate() calls: every
\* text with source 'auto' and no target, and the English sentence with a
\* chosen target, with and without a chosen source.
Requests ==
    {<<text, Auto, None>> : text \in Texts}
        \cup {<<"hello world", Auto, "de">>, <<"hello world", "en", "de">>}

\* Keys of the cache.
cacheKeys(c) == {c[k].key : k \in 1..Len(c)}

\* Calls waiting for a provider reply.
InFlight == {i \in Slots : req[i].pc # "idle"}

Max(a, b) == IF a >= b THEN a ELSE b

\* The state after application start-up: the settings store is attached (so
\* the context exists, built from the settings), a provider may have been
\* initialized from the settings, nothing is cached and no call was made.
InitManager ==
    /\ revision \in Revisions
    /\ now = MsPerMinute
    /\ LET c == new(revision, SettingsPrimary, SettingsSecond, SettingsTimeout,
                    MsPerMinute)
       IN  /\ primary = c.primary
           /\ defaultForeign = c.defaultForeign
           /\ timeoutMs = c.timeoutMs
           /\ currentSource = c.currentSource
           /\ currentTarget = c.currentTarget
           /\ lastForeign = c.lastForeign
           /\ lastActivity = c.lastActivity
    /\ call = NoCall
    /\ smartSwitch \in (IF revision = "detector" THEN BOOLEAN ELSE {TRUE})
    /\ activeProvider \in {"none", "google", "yandex"}
    /\ apiKey = IF activeProvider = "none" THEN None ELSE "key"
    /\ cache = <<>>
    /\ history = <<>>
    /\ req = [i \in Slots |-> IdleReq]
    /\ started = 0
    /\ last = IdleReq
    /\ applied = 0

\* The number the next insertion into the cache gets (observer).
nextBorn(c) ==
    IF c = <<>> THEN 1
    ELSE 1 + (CHOOSE n \in {c[k].born : k \in 1..Len(c)} :
                 \A k \in 1..Len(c) : c[k].born <= n)

\* translate(), detector-driven version, from the provider's successful
\* reply to its return.
respondDetector(r, ch, h, p, t) ==
    LET result == TranslationResult(r.text, r.finalSource, r.finalTarget)
        response == [okResponse(result.sourceLang, result.targetLang, p)
                        EXCEPT !.producer = r.via]
    IN  [ch |-> addToCache(ch, r.cacheKey, response, t, nextBorn(ch)),
         h |-> addToHistory(h, historyEntry(r.text, response, t)),
         r |-> [r EXCEPT !.pc = "done", !.response = response]]

\* translate(), api-driven version: the tail shared by both replies, which
\* stores the response under (text, detectedLang, finalTarget).
finishApi(c, r, detectedLang, finalTarget, ch, h, p, t) ==
    LET response == [okResponse(detectedLang, finalTarget, p)
                        EXCEPT !.producer = r.via]
        cacheKey == getCacheKey(p, r.text, detectedLang, finalTarget)
    IN  [c |-> c,
         ch |-> addToCache(ch, cacheKey, response, t, nextBorn(ch)),
         h |-> addToHistory(h, historyEntry(r.text, response, t)),
         r |-> [r EXCEPT !.pc = "done", !.response = response,
                         !.detectedLang = detectedLang,
                         !.finalTarget = finalTarget, !.cacheKey = cacheKey]]

\* respondApi with a slip: after an inversion the provider is called again
\* without a look into the cache.
respondApi_NoSecondLookup(c, r, ch, h, p, t) ==
    IF r.pc = "await1"
    THEN LET result == TranslationResult(r.text, r.finalSource, r.finalTarget)
             detectedLang == firstOf(result.detectedLanguage, result.sourceLang,
                                     r.assumedSource)
         IN  IF r.finalSource = Auto
             THEN LET isInverted == updateFromApiResultReturn(c, detectedLang, t)
                      c1 == updateFromApiResult(c, detectedLang, t)
                      finalTarget == c1.currentTarget
                      cacheKey == getCacheKey(p, r.text, detectedLang,
                                              finalTarget)
                      r1 == [r EXCEPT !.detectedLang = detectedLang,
                                      !.finalTarget = finalTarget,
                                      !.cacheKey = cacheKey]
                  IN  IF ~isInverted
                      THEN finishApi(c1, r, detectedLang, r.finalTarget, ch, h,
                                     p, t)
                      ELSE [c |-> c1, ch |-> ch, h |-> h,
                            r |-> [r1 EXCEPT !.pc = "await2", !.sent = 2,
                                             !.via = p]]
             ELSE finishApi(c, r, detectedLang, r.finalTarget, ch, h, p, t)
    ELSE LET result == TranslationResult(r.text, Auto, r.finalTarget)
             detectedLang == firstOf(result.detectedLanguage, result.sourceLang,
                                     r.detectedLang)
         IN  finishApi(c, r, detectedLang, r.finalTarget, ch, h, p, t)

\* translate(), api-driven version, from the provider's successful reply to
\* the next await or to its return.
respondApi(c, r, ch, h, p, t) ==
    IF r.pc = "await1"
    THEN LET result == TranslationResult(r.text, r.finalSource, r.finalTarget)
             detectedLang == firstOf(result.detectedLanguage, result.sourceLang,
                                     r.assumedSource)
         IN  IF r.finalSource = Auto
             THEN LET isInverted == updateFromApiResultReturn(c, detectedLang, t)
                      c1 == updateFromApiResult(c, detectedLang, t)
                      finalTarget == c1.currentTarget
                      cacheKey == getCacheKey(p, r.text, detectedLang,
                                              finalTarget)
                      r1 == [r EXCEPT !.detectedLang = detectedLang,
                                      !.finalTarget = finalTarget,
                                      !.cacheKey = cacheKey]
                  IN  IF ~isInverted
                      THEN finishApi(c1, r, detectedLang, r.finalTarget, ch, h,
                                     p, t)
                      ELSE IF cacheHit(ch, cacheKey, t)
                      THEN [c |-> c1, ch |-> ch, h |-> h,
                            r |-> [r1 EXCEPT !.pc = "done",
                                     !.response =
                                        fromCache(ch[cacheIndex(ch, cacheKey)])]]
                      ELSE [c |-> c1, ch |-> ch, h |-> h,
                            r |-> [r1 EXCEPT !.pc = "await2", !.sent = 2,
                                             !.via = p]]
             ELSE finishApi(c, r, detectedLang, r.finalTarget, ch, h, p, t)
    ELSE LET result == TranslationResult(r.text, Auto, r.finalTarget)
             detectedLang == firstOf(result.detectedLanguage, result.sourceLang,
                                     r.detectedLang)
         IN  finishApi(c, r, detectedLang, r.finalTarget, ch, h, p, t)

\* The renderer calls translate(text, sourceLang, targetLang, options) with
\* arguments out of `requests`, and the call runs up to its first await on
\* the provider or to its return; `faults` tells whether the local detector
\* may throw.
TranslateFrom(requests, faults) ==
    /\ started < MaxCalls
    /\ \E i \in Slots \ InFlight :
       /\ \A j \in Slots \ InFlight : i <= j
       /\ \E request \in requests, isExternal \in BOOLEAN, throws \in faults :
          /\ isExternal \/ throws
                => revision = "detector" /\ request[1] # "" /\ request[2] = Auto
          /\ LET text == request[1]
                 sourceLang == request[2]
                 targetLang == request[3]
                 r0 == [IdleReq EXCEPT
                           !.text = text, !.sourceLang = sourceLang,
                           !.targetLang = targetLang,
                           !.isExternal = isExternal,
                           !.seq = started + 1,
                           !.direction0 = Direction(Ctx),
                           !.expired0 = isExpired(Ctx, now),
                           !.overlap = InFlight # {},
                           !.again = /\ InFlight = {}
                                     /\ ~isExpired(Ctx, now)
                                     /\ ~last.overlap
                                     /\ last.response.kind = "ok"
                                     /\ ~last.response.fromCache
                                     /\ last.text = text
                                     /\ last.sourceLang = sourceLang
                                     /\ last.targetLang = targetLang
                                     /\ last.isExternal = isExternal
                                     /\ last.response.provider = activeProvider]
                 out == IF revision = "detector"
                        THEN translateDetector(Ctx, r0, activeProvider,
                                               smartSwitch, cache, now, throws)
                        ELSE translateApi(Ctx, r0, activeProvider, cache, now)
                 others == [j \in Slots |->
                               IF j \in InFlight
                               THEN [req[j] EXCEPT !.overlap = TRUE]
                               ELSE req[j]]
             IN  /\ SetCtx(out.c)
                 /\ activeProvider' = out.p
                 /\ apiKey' = IF out.p # activeProvider THEN "mock-key"
                               ELSE apiKey
                 /\ IF out.r.pc = "done"
                    THEN req' = others /\ last' = out.r
                    ELSE req' = [others EXCEPT ![i] = out.r] /\ last' = IdleReq
    /\ started' = started + 1
    /\ UNCHANGED <<revision, now, call, smartSwitch, cache, history, applied>>

Translate == TranslateFrom(Requests, BOOLEAN)

\* The provider's translate() resolves with a translation.
ProviderRespond(i) ==
    /\ i \in InFlight
    /\ LET out == IF revision = "detector"
                  THEN [c |-> Ctx] @@ respondDetector(req[i], cache, history,
                                                      activeProvider, now)
                  ELSE respondApi(Ctx, req[i], cache, history, activeProvider,
                                  now)
       IN  /\ SetCtx(out.c)
           /\ cache' = out.ch
           /\ history' = out.h
           /\ IF out.r.pc = "done"
              THEN /\ req' = [req EXCEPT ![i] = IdleReq]
                   /\ last' = [out.r EXCEPT
                                 !.evicted = cacheKeys(cache) \ cacheKeys(out.ch),
                                 !.dropped = IF out.r.response.fromCache THEN 0
                                             ELSE Len(history) + 1 - Len(out.h)]
              ELSE /\ req' = [req EXCEPT ![i] = out.r]
                   /\ last' = IdleReq
    /\ applied' = Max(applied, req[i].seq)
    /\ UNCHANGED <<revision, now, call, smartSwitch, activeProvider, apiKey,
                   started>>

\* The provider's translate() resolves with a result that carries an error,
\* which translate() throws into its catch block.
ProviderError(i) ==
    /\ i \in InFlight
    /\ \E error \in ProviderErrors(req[i].via) :
          last' = [req[i] EXCEPT !.pc = "done",
                                 !.response = errorResponse(error, activeProvider)]
    /\ req' = [req EXCEPT ![i] = IdleReq]
    /\ UNCHANGED <<revision, ctxVars, now, call, smartSwitch, activeProvider,
                   apiKey, cache, history, started, applied>>

\* Wall-clock time passes between calls: long enough for a session to
\* expire (a provider call lasts far less than that).
Elapse ==
    /\ InFlight = {}
    /\ now + timeoutMs + MsPerMinute <= MaxTime * MsPerMinute
    /\ now' = now + timeoutMs + MsPerMinute
    /\ last' = IdleReq
    /\ UNCHANGED <<revision, ctxVars, call, smartSwitch, activeProvider, apiKey,
                   cache, history, req, started, applied>>

NextManager ==
    \/ Translate
    \/ \E i \in Slots : ProviderRespond(i)
    \/ \E i \in Slots : ProviderError(i)
    \/ Elapse

SpecManager == InitManager /\ [][NextManager]_vars

----------------------------------------------------------------------------
(***************************************************************************)
(* LanguageUtils.detectLanguage on its own: a text is given by its length  *)
(* and by what franc.all returns for it, and the call is observed in       *)
(* `call` (a1: franc's result, a3: the length, a2: the returned code).     *)
(***************************************************************************)

\* Longest text given to the detector.
MaxLength == 12
\* ISO 639-3 codes franc reports: three of isoMap's keys and 'und', which
\* has no entry in isoMap.
FrancCodes == {"eng", "rus", "deu", "und"}
\* Scores of franc's best guess, in percent.
Scores == {0, 74, 75, 100}
\* What franc.all returns: nothing, or a best guess.
FrancResults == {<<>>} \cup (FrancCodes \X Scores)

InitDetect ==
    /\ InitManager
    /\ revision = "detector"
    /\ smartSwitch = TRUE
    /\ activeProvider = "none"

\* A text arrives at the detector.
GiveText ==
    /\ call.op = "none"
    /\ \E length \in 0..MaxLength, results \in FrancResults :
          call' = [NoCall EXCEPT !.op = "text", !.a1 = results, !.a3 = length]
    /\ UNCHANGED <<revision, ctxVars, now, mgrVars>>

\* detectLanguage(text, priorityLanguages) returns.
DetectLanguage ==
    /\ call.op = "text"
    /\ call' = [call EXCEPT !.op = "detectLanguage",
                            !.a2 = detectLanguageOn(call.a3, call.a1)]
    /\ UNCHANGED <<revision, ctxVars, now, mgrVars>>

NextDetect ==
    \/ GiveText
    \/ DetectLanguage

SpecDetect == InitDetect /\ [][NextDetect]_vars

----------------------------------------------------------------------------
(***************************************************************************)
(* The manager while the user changes the provider and while a day passes: *)
(* translate() calls, their successful replies, switchProvider() and a     *)
(* jump of the clock by the cache's time to live.                          *)
(***************************************************************************)

\* Arguments <<providerName, apiKey>> of the switchProvider calls: to Yandex
\* without and with a key, and to Google.
SwitchRequests == {<<"yandex", None>>, <<"yandex", "key">>, <<"google", "key">>}

\* provider.initialize(apiKey) throws: only Yandex's does, without a key.
initializeThrows(providerName, key) == providerName = "yandex" /\ key = None

\* switchProvider with a slip: the new provider and key are installed
\* before initialize is awaited (as initialize() of the manager does).
switchProvider_AssignFirst(p, key, ch, providerName, newKey) ==
    IF initializeThrows(providerName, newKey)
    THEN [p |-> providerName, key |-> newKey, ch |-> ch, ret |-> FALSE]
    ELSE [p |-> providerName, key |-> newKey, ch |-> <<>>, ret |-> TRUE]

\* switchProvider(providerName, apiKey): the active provider, the key, the
\* cache and the returned value, from the moment initialize has settled.
switchProvider(p, key, ch, providerName, newKey) ==
    IF initializeThrows(providerName, newKey)
    THEN [p |-> p, key |-> key, ch |-> ch, ret |-> FALSE]
    ELSE [p |-> providerName, key |-> newKey, ch |-> <<>>, ret |-> TRUE]

\* The settings window calls switchProvider.  `last` notes the call: the
\* requested name and key, and "switched" for true, "refused" for false.
SwitchProvider ==
    /\ activeProvider # "none"
    /\ \E request \in SwitchRequests :
          LET providerName == request[1]
              newKey == request[2]
              out == switchProvider(activeProvider, apiKey, cache,
                                    providerName, newKey)
          IN  /\ activeProvider' = out.p
              /\ apiKey' = out.key
              /\ cache' = out.ch
              /\ last' = [IdleReq EXCEPT
                            !.pc = "switchProvider",
                            !.text = newKey,
                            !.response.provider = providerName,
                            !.response.kind = IF out.ret THEN "switched"
                                              ELSE "refused"]
    /\ UNCHANGED <<revision, ctxVars, now, call, smartSwitch, history, req,
                   started, applied>>

\* A day passes while no call is in flight: the cache's time to live.
DayPasses ==
    /\ InFlight = {}
    /\ now < cacheTTL
    /\ now' = now + cacheTTL
    /\ last' = IdleReq
    /\ UNCHANGED <<revision, ctxVars, call, smartSwitch, activeProvider, apiKey,
                   cache, history, req, started, applied>>

\* Arguments of the translate() calls here: source 'auto', no target, for a
\* text too short for the local detector, a Russian and an English sentence.
ProviderRequests ==
    {<<text, Auto, None>> : text \in {"da", "privet mir!", "hello world"}}

InitProviders ==
    /\ InitManager
    /\ smartSwitch = TRUE
    /\ activeProvider = "google"

NextProviders ==
    \/ TranslateFrom(ProviderRequests, {FALSE})
    \/ \E i \in Slots : ProviderRespond(i)
    \/ SwitchProvider
    \/ DayPasses

SpecProviders == InitProviders /\ [][NextProviders]_vars

----------------------------------------------------------------------------
TypeOK ==
    /\ revision \in Revisions
    /\ primary \in Langs
    /\ defaultForeign \in Langs
    /\ currentSource \in Langs \cup {Auto}
    /\ currentTarget \in Langs \cup {Auto}
    /\ lastForeign \in Langs \cup {Auto}
    /\ lastActivity \in 0..now
    /\ now \in 0..(MaxTime * MsPerMinute)

----------------------------------------------------------------------------
\* The call just observed was made on a session that had not expired.
Live(op) == call.op = op /\ ~call.expired

\* C1: on a non-expired session, handleExternalInput(d) with a non-empty d
\* different from primaryLanguage leaves currentSource = d, currentTarget =
\* primaryLanguage and lastForeignLanguage = d, whatever the pair was before.
C1_ExternalForeign ==
    (Live("handleExternalInput") /\ call.a1 # None /\ call.a1 # call.pre.primary)
        => /\ currentSource = call.a1
           /\ currentTarget = call.pre.primary
           /\ lastForeign = call.a1

\* A foreign external input arrived while the pair pointed at another foreign
\* language and the sticky language was a different one.
C1_Witness ==
    /\ Live("handleExternalInput")
    /\ call.a1 \notin {None, call.pre.primary}
    /\ call.pre.currentSource \notin {Auto, call.a1}
    /\ call.pre.lastForeign # call.a1
    /\ lastForeign = call.a1

\* C2: on a non-expired session, handleExternalInput(primaryLanguage) sets
\* currentSource = primaryLanguage and currentTarget = the lastForeignLanguage
\* of before the call, and leaves lastForeignLanguage unchanged.
C2_ExternalPrimary ==
    (Live("handleExternalInput") /\ call.a1 = call.pre.primary)
        => /\ currentSource = call.pre.primary
           /\ currentTarget = call.pre.lastForeign
           /\ lastForeign = call.pre.lastForeign

\* A primary external input reused a sticky language that is not the default.
C2_Witness ==
    /\ Live("handleExternalInput")
    /\ call.a1 = call.pre.primary
    /\ call.pre.lastForeign \notin {call.pre.defaultForeign, call.pre.primary}
    /\ call.pre.currentTarget # call.pre.lastForeign
    /\ currentTarget = call.pre.lastForeign

\* C3: on a non-expired session, handleInputUpdate(d) with non-empty
\* d = currentTarget sets currentSource = d and currentTarget to
\* lastForeignLanguage when d = primaryLanguage and to primaryLanguage
\* otherwise; lastForeignLanguage is unchanged.
C3_InputFlip ==
    (Live("handleInputUpdate") /\ call.a1 # None /\ call.a1 = call.pre.currentTarget)
        => /\ currentSource = call.a1
           /\ currentTarget = IF call.a1 = call.pre.primary
                              THEN call.pre.lastForeign
                              ELSE call.pre.primary
           /\ lastForeign = call.pre.lastForeign

\* {foreign -> primary} with the sticky language as source, the user types
\* primary: the pair flips to {primary -> sticky}.
C3_Witness ==
    /\ Live("handleInputUpdate")
    /\ call.a1 = call.pre.currentTarget
    /\ call.a1 = call.pre.primary
    /\ call.pre.currentSource = call.pre.lastForeign
    /\ call.pre.lastForeign # call.pre.primary
    /\ currentSource = call.pre.primary
    /\ currentTarget = call.pre.lastForeign

\* C4: on a non-expired session, handleInputUpdate(d) with non-empty d,
\* d # currentTarget, d = lastForeignLanguage and currentSource #
\* lastForeignLanguage sets currentSource = lastForeignLanguage and
\* currentTarget = primaryLanguage.
C4_InputCorrection ==
    (/\ Live("handleInputUpdate")
     /\ call.a1 # None
     /\ call.a1 # call.pre.currentTarget
     /\ call.a1 = call.pre.lastForeign
     /\ call.pre.currentSource # call.pre.lastForeign)
        => /\ currentSource = call.pre.lastForeign
           /\ currentTarget = call.pre.primary

\* The correction changed a pair whose source was primary and whose target
\* was another language than the sticky one.
C4_Witness ==
    /\ Live("handleInputUpdate")
    /\ call.a1 # None
    /\ call.a1 # call.pre.currentTarget
    /\ call.a1 = call.pre.lastForeign
    /\ call.pre.currentSource = call.pre.primary
    /\ call.pre.lastForeign # call.pre.primary
    /\ currentSource = call.pre.lastForeign
    /\ currentTarget = call.pre.primary

\* C5: on a non-expired session, handleInputUpdate(d) with d neither equal to
\* currentTarget nor (equal to lastForeignLanguage while currentSource #
\* lastForeignLanguage) leaves currentSource, currentTarget and
\* lastForeignLanguage unchanged.
C5_InputFrame ==
    (/\ Live("handleInputUpdate")
     /\ call.a1 # call.pre.currentTarget
     /\ ~(call.a1 = call.pre.lastForeign
          /\ call.pre.currentSource # call.pre.lastForeign))
        => /\ currentSource = call.pre.currentSource
           /\ currentTarget = call.pre.currentTarget
           /\ lastForeign = call.pre.lastForeign

\* A third language was typed into a concrete pair and nothing moved.
C5_Witness ==
    /\ Live("handleInputUpdate")
    /\ call.a1 \in Langs
    /\ call.a1 \notin {call.pre.currentTarget, call.pre.lastForeign,
                        call.pre.currentSource}
    /\ call.pre.currentSource # Auto
    /\ currentSource = call.pre.currentSource
    /\ currentTarget = call.pre.currentTarget

\* The reset the session timeout is documented to apply: source 'auto',
\* target and sticky language back to the default foreign language.
DocumentedReset(c) ==
    [c EXCEPT !.currentSource = Auto,
              !.currentTarget = c.defaultForeign,
              !.lastForeign = c.defaultForeign]

\* C6: when the session was expired on entry, each of handleExternalInput,
\* handleInputUpdate, setManualPair and updateFromApiResult ends in the state
\* obtained by first resetting to {source 'auto', target = defaultForeign,
\* lastForeign = defaultForeign} and then applying its input.
C6_ResetBeforeInput ==
    (/\ call.expired
     /\ call.op \in {"handleExternalInput", "handleInputUpdate",
                     "setManualPair", "updateFromApiResult"})
        => LET r == touch(DocumentedReset(call.pre), now)
               e == CASE call.op = "handleExternalInput" ->
                           handleExternalInput(r, call.a1, now)
                      [] call.op = "handleInputUpdate" ->
                           handleInputUpdate(r, call.a1, now)
                      [] call.op = "setManualPair" ->
                           setManualPair(r, call.a1, call.a2, now)
                      [] OTHER ->
                           updateFromApiResult(r, call.a1, now)
           IN  /\ currentSource = e.currentSource
               /\ currentTarget = e.currentTarget
               /\ lastForeign = e.lastForeign

\* C7: currentSource and currentTarget are never both equal to the same
\* concrete (non-'auto') language code.
C7_DistinctPair ==
    ~(currentSource # Auto /\ currentSource = currentTarget)

\* C8 (amended): for every non-empty d, with currentTarget and
\* lastForeignLanguage read after the timeout check that opens the call (the
\* entry values on a live session, defaultForeignLanguage on an expired one):
\* if d = currentTarget, updateFromApiResult(d) returns true, sets
\* currentSource to that target and currentTarget to lastForeignLanguage when
\* the target was primaryLanguage and to primaryLanguage otherwise; if
\* d # currentTarget it returns false, sets currentSource = d, sets
\* lastForeignLanguage = d only when d # primaryLanguage, and leaves
\* currentTarget as the timeout check left it.
C8_ApiResultAfterTimeoutCheck ==
    (call.op = "updateFromApiResult" /\ call.a1 # None)
        => LET d == call.a1
               tgt0 == IF call.expired THEN call.pre.defaultForeign
                       ELSE call.pre.currentTarget
               lf0 == IF call.expired THEN call.pre.defaultForeign
                      ELSE call.pre.lastForeign
           IN  IF d = tgt0
               THEN /\ call.ret = TRUE
                    /\ currentSource = tgt0
                    /\ currentTarget = IF tgt0 = call.pre.primary
                                       THEN lf0 ELSE call.pre.primary
               ELSE /\ call.ret = FALSE
                    /\ currentSource = d
                    /\ lastForeign = IF d # call.pre.primary THEN d ELSE lf0
                    /\ currentTarget = tgt0

\* An inversion on a live session whose target was primary: the pair becomes
\* {primary -> sticky foreign language}.
C8_Witness ==
    /\ Live("updateFromApiResult")
    /\ call.ret = TRUE
    /\ call.a1 = call.pre.primary
    /\ call.pre.currentTarget = call.pre.primary
    /\ call.pre.lastForeign \notin {call.pre.primary, call.pre.defaultForeign}
    /\ currentSource = call.pre.primary
    /\ currentTarget = call.pre.lastForeign

\* C8 as stated: the same, with currentTarget and lastForeignLanguage read on
\* entry to the call whether or not the session has expired.
C8_Original ==
    (call.op = "updateFromApiResult" /\ call.a1 # None)
        => LET d == call.a1
               tgt0 == call.pre.currentTarget
               lf0 == call.pre.lastForeign
           IN  IF d = tgt0
               THEN /\ call.ret = TRUE
                    /\ currentSource = tgt0
                    /\ currentTarget = IF tgt0 = call.pre.primary
                                       THEN lf0 ELSE call.pre.primary
               ELSE /\ call.ret = FALSE
                    /\ currentSource = d
                    /\ lastForeign = IF d # call.pre.primary THEN d ELSE lf0
                    /\ currentTarget = tgt0

\* C9: updateConfig with a provided secondary language sets
\* defaultForeignLanguage to it and cascades it into lastForeignLanguage and
\* into currentTarget, each exactly when that field equalled the old default
\* or the session is already expired.
C9_ConfigCascade ==
    (call.op = "updateConfig" /\ call.a2 # None)
        => /\ defaultForeign = call.a2
           /\ lastForeign =
                 IF call.pre.lastForeign = call.pre.defaultForeign \/ call.expired
                 THEN call.a2 ELSE call.pre.lastForeign
           /\ currentTarget =
                 IF call.pre.currentTarget = call.pre.defaultForeign \/ call.expired
                 THEN call.a2 ELSE call.pre.currentTarget

C11_ConstructedState ==
    (call.op = "new" \/ (call.op = "checkTimeout" /\ call.expired))
        => /\ currentSource = Auto
           /\ currentTarget = defaultForeign
           /\ lastForeign = defaultForeign

\* C12: checkTimeout is idempotent: right after a checkTimeout call, a second
\* call at the same clock reading changes nothing; a call on a session that
\* has not expired changes nothing at all.
C12_CheckTimeoutIdempotent ==
    (call.op = "checkTimeout")
        => /\ checkTimeout(revision, Ctx, now) = Ctx
           /\ (~call.expired => Ctx = call.pre)

\* checkTimeout reset an expired session whose pair and sticky language had
\* moved away from the defaults.
C12_Witness ==
    /\ call.op = "checkTimeout"
    /\ call.expired
    /\ call.pre.lastForeign # call.pre.defaultForeign
    /\ call.pre.currentTarget # call.pre.defaultForeign
    /\ lastForeign = defaultForeign
    /\ currentTarget = defaultForeign

\* C20: on a session that has not expired, handleExternalInput,
\* handleInputUpdate and updateFromApiResult called with a null, undefined or
\* empty language code leave currentSource, currentTarget and
\* lastForeignLanguage unchanged, and updateFromApiResult returns false.
C20_MissingCodeIsNoOp ==
    (/\ call.op \in {"handleExternalInput", "handleInputUpdate",
                     "updateFromApiResult"}
     /\ ~call.expired
     /\ call.a1 = None)
        => /\ currentSource = call.pre.currentSource
           /\ currentTarget = call.pre.currentTarget
           /\ lastForeign = call.pre.lastForeign
           /\ call.ret = FALSE

\* updateFromApiResult received no language code on a live session whose pair
\* had been resolved to {foreign -> primary}.
C20_Witness ==
    /\ Live("updateFromApiResult")
    /\ call.a1 = None
    /\ call.pre.currentSource \in Langs \ {call.pre.primary}
    /\ call.pre.currentTarget = call.pre.primary
    /\ currentSource = call.pre.currentSource
    /\ lastActivity = now

----------------------------------------------------------------------------
\* The step completes a translate() call: `last` takes the finished call.
Completes == last'.pc = "done" /\ last' # last

\* The step hands call i its provider reply (a translation or an error).
Replied(i) == i \in InFlight /\ req'[i].pc # req[i].pc

\* C13: after a successful translate of (text, source, target) has been
\* cached, an immediately following translate call with the same arguments
\* and the same provider returns the cached response tagged fromCache = true,
\* makes no provider call and adds no history entry (the detector, which
\* gave a language for the text before, does so again).
C13_RepeatIsCacheHit ==
    /\ [](/\ \A i \in InFlight : ~req[i].again
          /\ (last.again /\ last.response.kind # "threw")
                => /\ last.response.kind = "ok"
                   /\ last.response.fromCache
                   /\ last.sent = 0)
    /\ [][last'.again /\ Completes => history' = history]_vars

\* C14: the cache never holds more than maxCacheSize entries, and when a key
\* that is not in a full cache is inserted, exactly one entry leaves it: the
\* one inserted earliest, which is then no longer a hit.
C14_CacheBoundedFifo ==
    /\ [](Len(cache) <= maxCacheSize)
    /\ [][(Len(cache) = maxCacheSize /\ cacheKeys(cache') \ cacheKeys(cache) # {})
            => \E k \in 1..Len(cache) :
                  /\ \A j \in 1..Len(cache) :
                        j # k => cache[k].born < cache[j].born
                  /\ cacheKeys(cache) \ cacheKeys(cache') = {cache[k].key}
                  /\ ~cacheHit(cache', cache[k].key, now')]_vars

\* A third key went into a full cache, and the evicted key is not a hit.
C14_Witness ==
    /\ last.response.kind = "ok"
    /\ ~last.response.fromCache
    /\ Cardinality(last.evicted) = 1
    /\ Len(cache) = maxCacheSize
    /\ \A key \in last.evicted : ~cacheHit(cache, key, now)
    /\ cache[Len(cache)].key = last.cacheKey

\* C15: the history never holds more than maxHistorySize entries and is
\* ordered most-recent-first; a successful translation that did not come from
\* the cache is prepended and the oldest entry is dropped when the bound
\* would be exceeded; every other step (a cache hit, a failed translation
\* included) leaves the history as it is.
C15_HistoryBoundedRecentFirst ==
    /\ [](/\ Len(history) <= maxHistorySize
          /\ \A k \in 1..Len(history) : \A j \in 1..Len(history) :
                k < j => history[k].timestamp >= history[j].timestamp)
    /\ [][IF Completes /\ last'.response.kind = "ok"
             /\ ~last'.response.fromCache
          THEN /\ Len(history') = IF Len(history) < maxHistorySize
                                  THEN Len(history) + 1 ELSE maxHistorySize
               /\ history'[1].text = last'.text
               /\ history'[1].sourceLang = last'.response.sourceLang
               /\ history'[1].targetLang = last'.response.targetLang
               /\ history'[1].timestamp = now'
               /\ \A k \in 2..Len(history') : history'[k] = history[k - 1]
          ELSE history' = history]_vars

\* A successful translation was prepended to a full history, whose oldest
\* entry was dropped.
C15_Witness ==
    /\ last.response.kind = "ok"
    /\ ~last.response.fromCache
    /\ last.dropped = 1
    /\ Len(history) = maxHistorySize
    /\ history[1].text = last.text
    /\ history[1].text # history[2].text

\* C16: when a translate call ends in a provider error (no other call ran
\* meanwhile, and the session had not expired when it began), nothing is
\* added to the cache or the history and the context's currentSource,
\* currentTarget and lastForeign are what they were before the call.
C16_ErrorLeavesNoTrace ==
    [][\A i \in Slots :
          (/\ Replied(i)
           /\ Completes
           /\ last'.response.kind = "error"
           /\ ~req[i].overlap
           /\ ~req[i].expired0)
              => /\ cache' = cache
                 /\ history' = history
                 /\ Direction(Ctx)' = req[i].direction0]_vars

\* C17: with two overlapping translate calls, the provider reply to a call
\* older than one whose reply has already been handled does not change the
\* context's currentSource, currentTarget or lastForeign.
C17_StaleReplyIgnored ==
    [][\A i \in Slots :
          (Replied(i) /\ req[i].seq < applied)
              => Direction(Ctx)' = Direction(Ctx)]_vars

\* C18: every error a provider's error mapping produces is retryable exactly
\* when its type is RATE_LIMITED or PROVIDER_ERROR (not retryable for
\* INVALID_API_KEY, INVALID_REQUEST and QUOTA_EXCEEDED), for Google and for
\* Yandex.
C18_RetryableByType ==
    (last.response.kind = "error")
        => (last.response.retryable
               <=> last.response.errorType \in {"RATE_LIMITED", "PROVIDER_ERROR"})

\* C19: when the language detector throws during a smart-context translate
\* call, translate does not propagate the failure (it goes on with source
\* 'auto' and the context's current target, as if nothing was detected).
C19_DetectorFailureSwallowed ==
    last.response.kind # "threw"

----------------------------------------------------------------------------
\* The translate() call that started last, while it is in flight or is the
\* one that returned last.
StartedCall ==
    IF last.seq = started THEN last
    ELSE IF \E i \in Slots : req[i].seq = started
         THEN req[CHOOSE i \in Slots : req[i].seq = started]
         ELSE IdleReq

\* Codes of a call's arguments that name a language other than the primary.
requestForeign(r, p) == {r.sourceLang, r.targetLang} \ {None, Auto, p}

\* C21: a translate call with a non-empty text, made while smartSwitch is
\* off or with an explicit source code, leaves the context's currentSource
\* and currentTarget to handleExternalInput/handleInputUpdate untouched,
\* resolves a missing target to the settings' primaryLanguage, and leaves a
\* non-primary language of its arguments in lastForeign.
C21_ExplicitBypass ==
    [][(/\ started' = started + 1
        /\ StartedCall'.text # ""
        /\ (~smartSwitch \/ StartedCall'.sourceLang # Auto))
          => /\ (revision = "detector"
                    => /\ currentSource' = currentSource
                       /\ currentTarget' = currentTarget)
             /\ (StartedCall'.targetLang = None
                    => StartedCall'.finalTarget = SettingsPrimary)
             /\ (requestForeign(StartedCall', primary') # {}
                    => lastForeign' \in requestForeign(StartedCall', primary'))]_vars

----------------------------------------------------------------------------
\* The sticky foreign language an observed call started from: the one left
\* by the timeout check the method opens with (setManualPair opens with
\* none).
stickyBefore ==
    IF call.op = "setManualPair" THEN call.pre.lastForeign
    ELSE checkTimeout(revision, call.pre, now).lastForeign

\* C22: when handleExternalInput, updateFromApiResult or setManualPair has
\* written a new lastForeign, it differs from primaryLanguage; and such a
\* call whose input is primaryLanguage leaves lastForeign as it was.
C22_StickyIsForeign ==
    (call.op \in {"handleExternalInput", "updateFromApiResult", "setManualPair"})
        => /\ (lastForeign # stickyBefore => lastForeign # primary)
           /\ (/\ call.a1 = primary
               /\ (call.op = "setManualPair" => call.a2 = primary))
                 => lastForeign = stickyBefore

\* updateFromApiResult(d) with a foreign d that is not the current target
\* has replaced the sticky foreign language.
C22_Witness ==
    /\ call.op = "updateFromApiResult"
    /\ call.a1 \in Langs \ {primary}
    /\ lastForeign = call.a1
    /\ lastForeign # stickyBefore

----------------------------------------------------------------------------
\* C23: detectLanguage returns null for a text shorter than 3 characters,
\* and for a text of 3 to 9 characters whose best guess scores below 0.75;
\* a best guess whose code has no entry in isoMap yields null, so the value
\* returned is null or one of the table's two-letter codes.
C23_DetectLanguageNull ==
    (call.op = "detectLanguage")
        => /\ (call.a3 < 3 => call.a2 = None)
           /\ (call.a3 \in 3..9 /\ call.a1 # <<>> /\ call.a1[2] < 75
                  => call.a2 = None)
           /\ (call.a1 # <<>> /\ call.a1[1] = "und" => call.a2 = None)
           /\ call.a2 \in Langs \cup {None}

\* A nine-character text whose best guess is a mapped code scoring just
\* below the threshold is not detected.
C23_Witness ==
    /\ call.op = "detectLanguage"
    /\ call.a3 = 9
    /\ call.a1 = <<"eng", 74>>
    /\ call.a2 = None

----------------------------------------------------------------------------
\* The provider's first reply to call i made updateFromApiResult report an
\* inversion: the call had asked with source 'auto' and the language the
\* reply named was the context's current target.
Inverted(i) ==
    /\ Replied(i)
    /\ revision = "api"
    /\ req[i].pc = "await1"
    /\ req[i].finalSource = Auto
    /\ currentSource' = checkTimeout("api", Ctx, now).currentTarget
    /\ currentTarget' # checkTimeout("api", Ctx, now).currentTarget

\* C24: a translate call sends at most two requests to the provider; it
\* sends the second one only after an inversion reported for an 'auto'
\* request and a miss in the cache under (detected source, corrected
\* target); on a hit there it returns the cached response without a second
\* request; and the response of a call that saw an inversion names the
\* context's corrected currentTarget as its target.
C24_SecondCallOnlyOnInversion ==
    /\ [](\A i \in Slots : req[i].sent <= 2)
    /\ [](last.sent <= 2)
    /\ [][\A i \in Slots :
            /\ (Replied(i) /\ req'[i].pc = "await2")
                  => /\ Inverted(i)
                     /\ req'[i].sent = 2
                     /\ req'[i].finalTarget = currentTarget'
                     /\ ~cacheHit(cache, getCacheKey(activeProvider, req[i].text,
                                                     currentSource',
                                                     currentTarget'), now)
            /\ (Inverted(i)
                /\ cacheHit(cache, getCacheKey(activeProvider, req[i].text,
                                               currentSource', currentTarget'),
                            now))
                  => /\ Completes
                     /\ last'.sent = 1
                     /\ last'.response.fromCache
                     /\ last'.response.targetLang = currentTarget'
            /\ (Replied(i) /\ req[i].pc = "await2")
                  => /\ Completes
                     /\ (last'.response.kind = "ok"
                            => last'.response.targetLang = req[i].finalTarget)]_vars

\* A call whose first reply inverted the pair has found the response under
\* the corrected key in the cache and returned it.
C24_Witness ==
    /\ revision = "api"
    /\ last.pc = "done"
    /\ last.sent = 1
    /\ last.detectedLang # None
    /\ last.response.fromCache
    /\ last.response.targetLang = currentTarget

----------------------------------------------------------------------------
\* C25: each of handleExternalInput, handleInputUpdate, setManualPair,
\* updateFromApiResult and updateConfig leaves lastActivity at the current
\* time, so the session is not expired right after it.
C25_MutationTouches ==
    (call.op \in {"handleExternalInput", "handleInputUpdate", "setManualPair",
                  "updateFromApiResult", "updateConfig"})
        => /\ lastActivity = now
           /\ ~isExpired(Ctx, now)

----------------------------------------------------------------------------
\* C28: on a non-expired session, handleExternalInput(d) and
\* handleInputUpdate(d) are idempotent: right after either of them, the same
\* call with the same d would leave currentSource, currentTarget and
\* lastForeign as they are.
C28_InputIdempotent ==
    /\ Live("handleExternalInput")
          => Direction(handleExternalInput(Ctx, call.a1, now)) = Direction(Ctx)
    /\ Live("handleInputUpdate")
          => Direction(handleInputUpdate(Ctx, call.a1, now)) = Direction(Ctx)

\* handleInputUpdate has flipped the pair, and typing the same language
\* again would not flip it back.
C28_Witness ==
    /\ Live("handleInputUpdate")
    /\ call.a1 = call.pre.currentTarget
    /\ currentSource = call.a1
    /\ currentTarget # call.pre.currentTarget
    /\ Direction(handleInputUpdate(Ctx, call.a1, now)) = Direction(Ctx)

----------------------------------------------------------------------------
\* The cache holds an entry under `key` that is as old as the time to live,
\* or older.
staleEntry(c, key, t) ==
    /\ cacheIndex(c, key) # 0
    /\ (t - c[cacheIndex(c, key)].timestamp) >= cacheTTL

\* C26: a response returned with fromCache = true is the entry the cache
\* holds under the call's key at that moment, and that entry is younger
\* than cacheTTL; a translate call whose key maps to an entry of age >=
\* cacheTTL goes to the provider and does not return fromCache = true.
C26_CacheHitWithinTTL ==
    [][/\ (Completes /\ last'.response.fromCache)
            => /\ cacheIndex(cache, last'.cacheKey) # 0
               /\ ~staleEntry(cache, last'.cacheKey, now)
               /\ last'.response
                     = fromCache(cache[cacheIndex(cache, last'.cacheKey)])
       /\ (/\ started' = started + 1
           /\ StartedCall'.text # ""
           /\ staleEntry(cache, StartedCall'.cacheKey, now))
            => /\ StartedCall'.pc = "await1"
               /\ StartedCall'.sent = 1
               /\ ~StartedCall'.response.fromCache]_vars

\* A call waits for the provider although the cache still holds an entry
\* under its key: the entry is a day old.
C26_Witness ==
    \E i \in Slots :
        /\ req[i].pc = "await1"
        /\ staleEntry(cache, req[i].cacheKey, now)

----------------------------------------------------------------------------
\* C27: every cache entry whose key names provider P holds a translation
\* that P produced and that is labelled provider = P, also when
\* switchProvider completes while a translate call awaits its provider;
\* and a response returned from the cache was produced by the provider
\* that is active at that moment.
C27_CacheEntryOfItsProvider ==
    /\ [](\A k \in 1..Len(cache) :
             /\ cache[k].value.provider = cache[k].key[1]
             /\ cache[k].value.producer = cache[k].key[1])
    /\ [][(Completes /\ last'.response.fromCache)
             => last'.response.producer = activeProvider']_vars

----------------------------------------------------------------------------
\* C29: in the detector-driven translate with smartSwitch on and source
\* 'auto', the target a call asks the provider for, and uses in its cache
\* key, is the currentTarget its own context update has left; its source
\* is the currentSource that update has left (the detected language where
\* that is 'auto'), and 'auto' exactly when nothing was detected; and a
\* call overlapping with others gets its reply for this pair and stores it
\* under this key.
C29_CallUsesOwnPair ==
    [][/\ (/\ started' = started + 1
           /\ revision = "detector"
           /\ smartSwitch
           /\ StartedCall'.text # ""
           /\ StartedCall'.sourceLang = Auto
           /\ StartedCall'.response.kind # "threw")
            => LET r == StartedCall'
                   detected == detectLanguage(r.text)
               IN  /\ r.finalTarget = currentTarget'
                   /\ (r.finalSource = Auto <=> detected = None)
                   /\ (detected # None
                          => r.finalSource = IF currentSource' = Auto
                                             THEN detected ELSE currentSource')
                   /\ r.cacheKey = getCacheKey(activeProvider', r.text,
                                               r.finalSource, r.finalTarget)
       /\ \A i \in Slots :
             (Replied(i) /\ revision = "detector" /\ Completes
              /\ last'.response.kind = "ok")
                => /\ last'.response.targetLang = req[i].finalTarget
                   /\ last'.cacheKey = req[i].cacheKey
                   /\ \E k \in 1..Len(cache') : cache'[k].key = req[i].cacheKey]_vars

\* Two calls overlap; the older one went out with source 'auto' because
\* nothing was detected in its text, the newer one with a detected source,
\* each with the target its own update left.
C29_Witness ==
    /\ revision = "detector"
    /\ \E i \in Slots, j \in Slots :
          /\ req[i].pc = "await1" /\ req[j].pc = "await1"
          /\ req[i].seq < req[j].seq
          /\ req[i].finalSource = Auto
          /\ req[j].finalSource \in Langs
          /\ req[j].finalTarget = currentTarget
          /\ req[i].finalTarget # req[j].finalTarget

----------------------------------------------------------------------------
\* C30: switchProvider returns false exactly when initializing the new
\* provider fails, and then activeProvider, apiKey and the cache are as
\* before; when it returns true, activeProvider and apiKey are the
\* requested ones and the cache is empty; either way the history and the
\* translation context are untouched.
C30_SwitchAllOrNothing ==
    [][(last'.pc = "switchProvider")
          => /\ history' = history
             /\ Ctx' = Ctx
             /\ (last'.response.kind = "refused"
                    <=> initializeThrows(last'.response.provider, last'.text))
             /\ (last'.response.kind = "refused"
                    => /\ activeProvider' = activeProvider
                       /\ apiKey' = apiKey
                       /\ cache' = cache)
             /\ (last'.response.kind = "switched"
                    => /\ activeProvider' = last'.response.provider
                       /\ apiKey' = last'.text
                       /\ cache' = <<>>)]_vars

\* A switch to Yandex without a key was refused while the cache held an
\* entry made by Google: provider, key and cache are still in place.
C30_Witness ==
    /\ last.pc = "switchProvider"
    /\ last.response.kind = "refused"
    /\ last.response.provider = "yandex"
    /\ activeProvider = "google"
    /\ apiKey = "key"
    /\ cache # <<>>

====
